---- MODULE Spec2Model ----
(***************************************************************************)
(* A model of transformDestructuredProps                                   *)
(* (packages/compiler-sfc/src/compileScriptPropsDestructure.ts): the pass  *)
(* that walks a <script setup> syntax tree and rewrites the references to  *)
(* destructured props into accesses of the props object.                   *)
(*                                                                         *)
(* The syntax tree is a value: a node is a record                          *)
(*   [type, name, kids, flags]                                             *)
(* whose kids are its child nodes in the order estree-walker visits them   *)
(* (the order of the node's keys), and a node's identity is its path, the  *)
(* sequence of child indices that leads to it from the Program node.       *)
(***************************************************************************)
EXTENDS Integers, Sequences, FiniteSets, TLC

(***************************************************************************)
(* Bounds of the model.                                                    *)
(***************************************************************************)
\* The number of statements of a program besides the defineProps statement.
MaxStmts == 3

\* The block offset handed to the pass besides its default, 0.
BlockOffset == 7

(***************************************************************************)
(* Syntax trees.                                                           *)
(***************************************************************************)
Node(t, n, k, f) == [type |-> t, name |-> n, kids |-> k, flags |-> f]

Id(n) == Node("Identifier", n, <<>>, {})

Lit == Node("NumericLiteral", "", <<>>, {})

\* left = right, left and right in the order of the node's keys
Assign(l, r) == Node("AssignmentExpression", "", <<l, r>>, {})

\* argument++
Update(a) == Node("UpdateExpression", "", <<a>>, {})

\* callee(args)
Call(c, args) == Node("CallExpression", "", <<Id(c)>> \o args, {})

\* { n } in an object literal: the key and the value are two nodes with one span
ShorthandProp(n) == Node("ObjectProperty", "", <<Id(n), Id(n)>>, {"shorthand"})

\* { k: v } in an object literal
KeyedProp(k, v) == Node("ObjectProperty", "", <<Id(k), v>>, {})

ObjectExpr(props) == Node("ObjectExpression", "", props, {})

\* { n } in a pattern
ShorthandPat(n) ==
    Node("ObjectProperty", "", <<Id(n), Id(n)>>, {"shorthand", "inPattern"})

\* { k: v } in a pattern
KeyedPat(k, v) == Node("ObjectProperty", "", <<Id(k), Id(v)>>, {"inPattern"})

ObjectPat(props) == Node("ObjectPattern", "", props, {})

\* e as T
TSAs(e, t) ==
    Node("TSAsExpression", "", <<e, Node("TSTypeReference", "", <<Id(t)>>, {})>>, {})

\* e!
TSNonNull(e) == Node("TSNonNullExpression", "", <<e>>, {})

\* (params) => e
Arrow(params, e) == Node("ArrowFunctionExpression", "", params \o <<e>>, {})

ExprStmt(e) == Node("ExpressionStatement", "", <<e>>, {})

\* let <pattern> = init
VarDecl(pat, init) ==
    Node("VariableDeclaration", "",
         <<Node("VariableDeclarator", "", <<pat, init>>, {})>>, {})

Block(body) == Node("BlockStatement", "", body, {})

\* function f(params) { body }: id, params, body
FuncDecl(f, params, body) ==
    Node("FunctionDeclaration", "", <<Id(f)>> \o params \o <<Block(body)>>, {})

\* try { } catch (param) { body }; param is a sequence of zero or one pattern
TryCatch(param, body) ==
    Node("TryStatement", "",
         <<Block(<<>>), Node("CatchClause", "", param \o <<Block(body)>>, {})>>, {})

\* for (const n of foo) { body }
ForOf(n, body) ==
    Node("ForOfStatement", "",
         <<Node("VariableDeclaration", "",
                <<Node("VariableDeclarator", "", <<Id(n)>>, {})>>, {}),
           Id("foo"), Block(body)>>, {})

\* const { count, label: aliasedLabel } = defineProps()
DefinePropsDecl ==
    VarDecl(ObjectPat(<<ShorthandPat("count"), KeyedPat("label", "aliasedLabel")>>),
            Node("CallExpression", "", <<Id("defineProps")>>, {}))

Program(body) == Node("Program", "", body, {})

(***************************************************************************)
(* Paths.                                                                  *)
(***************************************************************************)
RECURSIVE NodeAt(_, _)
NodeAt(n, p) == IF p = <<>> THEN n ELSE NodeAt(n.kids[Head(p)], Tail(p))

Front(p) == SubSeq(p, 1, Len(p) - 1)

Last(p) == p[Len(p)]

\* the paths of the nodes of the subtree of tree at p, p included
RECURSIVE PathsUnder(_, _)
PathsUnder(tree, p) ==
    {p} \cup UNION { PathsUnder(tree, Append(p, i)) :
                        i \in 1..Len(NodeAt(tree, p).kids) }

IsPrefix(s, t) == Len(s) <= Len(t) /\ SubSeq(t, 1, Len(s)) = s

\* the number of nodes of a tree, and of a sequence of trees
RECURSIVE Size(_), SizeSeq(_)
Size(n) == 1 + SizeSeq(n.kids)

SizeSeq(ks) == IF ks = <<>> THEN 0 ELSE Size(Head(ks)) + SizeSeq(Tail(ks))

\* the number of nodes that precede the node at p in document order
RECURSIVE Rank(_, _)
Rank(n, p) ==
    IF p = <<>> THEN 0
    ELSE 1 + SizeSeq(SubSeq(n.kids, 1, Head(p) - 1)) + Rank(n.kids[Head(p)], Tail(p))

\* the node that carries the span of the identifier at p: the value of a
\* shorthand property has the span of its key
SpanPath(tree, p) ==
    IF /\ p # <<>>
       /\ NodeAt(tree, Front(p)).type = "ObjectProperty"
       /\ "shorthand" \in NodeAt(tree, Front(p)).flags
       /\ Last(p) = 2
    THEN Append(Front(p), 1)
    ELSE p

\* id.start and id.end: an identifier is one character wide and no two
\* spans touch
IdStart(tree, p) == 2 * Rank(tree, SpanPath(tree, p))

IdEnd(tree, p) == IdStart(tree, p) + 1

(***************************************************************************)
(* The helpers the pass imports from @vue/compiler-core and @vue/shared.   *)
(***************************************************************************)
isFunctionType(n) ==
    n.type \in {"FunctionDeclaration", "FunctionExpression",
                "ArrowFunctionExpression", "ObjectMethod", "ClassMethod"}

TS_NODE_TYPES ==
    {"TSAsExpression", "TSTypeAssertion", "TSNonNullExpression",
     "TSInstantiationExpression", "TSSatisfiesExpression"}

\* the path of the expression a chain of TS wrappers at p wraps
RECURSIVE unwrapTSNode(_, _)
unwrapTSNode(tree, p) ==
    IF NodeAt(tree, p).type \in TS_NODE_TYPES
    THEN unwrapTSNode(tree, Append(p, 1))
    ELSE p

isCallOf(n, test) ==
    /\ n.type = "CallExpression"
    /\ n.kids[1].type = "Identifier"
    /\ n.kids[1].name = test

isStaticProperty(n) ==
    /\ n.type \in {"ObjectProperty", "ObjectMethod"}
    /\ "computed" \notin n.flags

\* the paths of the identifiers the pattern at p binds
RECURSIVE extractIdentifiers(_, _)
extractIdentifiers(tree, p) ==
    LET n == NodeAt(tree, p) IN
    CASE n.type = "Identifier" -> {p}
      [] n.type = "ObjectPattern" ->
            UNION { IF n.kids[i].type = "RestElement"
                    THEN extractIdentifiers(tree, p \o <<i, 1>>)
                    ELSE extractIdentifiers(tree, p \o <<i, 2>>) :
                    i \in 1..Len(n.kids) }
      [] n.type = "ArrayPattern" ->
            UNION { extractIdentifiers(tree, Append(p, i)) : i \in 1..Len(n.kids) }
      [] n.type \in {"RestElement", "AssignmentPattern"} ->
            extractIdentifiers(tree, Append(p, 1))
      [] OTHER -> {}

\* the indices of the params among the kids of a function node
ParamIndices(n) ==
    IF n.type = "FunctionDeclaration" THEN 2..(Len(n.kids) - 1)
    ELSE 1..(Len(n.kids) - 1)

\* the identifiers onIdent is called with
walkFunctionParams(tree, p) ==
    UNION { extractIdentifiers(tree, Append(p, i)) :
               i \in ParamIndices(NodeAt(tree, p)) }

\* parent is the node at the top of pstack, a stack of paths
RECURSIVE DestructureWalk(_, _, _)
DestructureWalk(tree, pstack, i) ==
    IF i = 0 THEN FALSE
    ELSE LET t == NodeAt(tree, pstack[i]).type IN
         IF t = "AssignmentExpression" THEN TRUE
         ELSE IF t # "ObjectProperty" /\ t \notin {"ObjectPattern", "ArrayPattern",
                                                  "AssignmentPattern"}
              THEN FALSE
              ELSE DestructureWalk(tree, pstack, i - 1)

isInDestructureAssignment(tree, parent, pstack) ==
    /\ parent.type \in {"ObjectProperty", "ArrayPattern"}
    /\ DestructureWalk(tree, pstack, Len(pstack))

\* Babel's isReferenced, called without a grandparent
isReferenced(tree, p) ==
    LET parent == NodeAt(tree, Front(p))
        i == Last(p)
    IN CASE parent.type = "VariableDeclarator" -> i = 2
         [] parent.type \in {"FunctionDeclaration", "FunctionExpression"} -> FALSE
         [] parent.type = "ArrowFunctionExpression" -> i = Len(parent.kids)
         [] parent.type = "CatchClause" -> FALSE
         [] parent.type = "ObjectProperty" ->
               IF i = 1 THEN "computed" \in parent.flags ELSE TRUE
         [] parent.type = "AssignmentPattern" -> i = 2
         [] parent.type \in {"ObjectPattern", "ArrayPattern", "RestElement",
                             "LabeledStatement"} -> FALSE
         [] OTHER -> TRUE

isReferencedIdentifier(tree, p, pstack) ==
    IF p = <<>> THEN TRUE
    ELSE LET parent == NodeAt(tree, Front(p)) IN
         IF NodeAt(tree, p).name = "arguments" THEN FALSE
         ELSE IF isReferenced(tree, p) THEN TRUE
         ELSE CASE parent.type \in {"AssignmentExpression", "AssignmentPattern"} -> TRUE
                [] parent.type \in {"ObjectPattern", "ArrayPattern"} ->
                      isInDestructureAssignment(tree, parent, pstack)
                [] OTHER -> FALSE

\* the text of the access to the prop of public name key
genPropsAccessExp(key) == <<"__props", ".", key>>

(***************************************************************************)
(* The inputs of the pass.                                                 *)
(***************************************************************************)
\* knownProps: public name -> the local name the destructure gives it
knownProps ==
    [key \in {"count", "label"} |->
        [local |-> IF key = "label" THEN "aliasedLabel" ELSE key]]

\* a Record<string, boolean>, and the assignment scope[n] = v
EmptyScope == [n \in {} |-> FALSE]

Put(scope, n, v) ==
    [x \in (DOMAIN scope) \cup {n} |-> IF x = n THEN v ELSE scope[x]]

PutAll(scope, ns, v) ==
    [x \in (DOMAIN scope) \cup ns |-> IF x \in ns THEN v ELSE scope[x]]

NamesOf(tree, ps) == { NodeAt(tree, q).name : q \in ps }

NoError == [kind |-> "none", node |-> <<>>, method |-> ""]

VARIABLES
    ast,               \* the Program node handed to the pass
    offset,            \* the block offset handed to the pass
    vueImportAliases,  \* canonical name -> local name of the imports from vue
    scopeStack,        \* the stack of scopes, the root scope first
    frameOwner,        \* for each scope of scopeStack, the node it was pushed for
    currentScope,      \* the index in scopeStack of the current scope, 0 for null
    excludedIds,       \* the identifier nodes never to rewrite
    parentStack,       \* the stack of parent nodes
    registrations,     \* history: identifier -> the frames (by the node each was
                       \* pushed for) registerLocalBinding was called with it in
    walkedScopes,      \* history: the statement lists walkScope was called on,
                       \* in the order of the calls
    edits,             \* the calls of s.overwrite and s.appendLeft, in order
    err,               \* the call of error(), which does not return
    path,              \* the node the walker is at
    pc,                \* start, enter, leave, done or error; off when the
                       \* pass is not run
    raw,               \* mergeDefaults: the declarations handed to it
    defaults,          \* mergeDefaults: key -> default value
    props,             \* mergeDefaults: the object it builds and returns
    todo,              \* mergeDefaults: the keys of defaults the loop has yet
                       \* to visit
    warned,            \* mergeDefaults: the keys warn() was called for
    mpc,               \* mergeDefaults: off, call, loop or returned
    dev,               \* __DEV__, the build flag of the runtime helpers
    currentInstance,   \* the current component instance, or NoInstance
    ctx,               \* withAsyncContext: the instance it captured
    awaitable,         \* withAsyncContext: what getAwaitable returned
    asyncWarned,       \* withAsyncContext: warn() was called
    calls,             \* withAsyncContext: the calls made so far, in order
    apc                \* withAsyncContext: the position of the helper and of
                       \* its caller; off when it is not called

passVars ==
    <<ast, offset, vueImportAliases, scopeStack, frameOwner, currentScope,
      excludedIds, parentStack, registrations, walkedScopes, edits, err, path, pc>>

mergeVars == <<raw, defaults, props, todo, warned, mpc>>

asyncVars == <<currentInstance, ctx, awaitable, asyncWarned, calls, apc>>

runtimeVars == <<dev, mergeVars, asyncVars>>

vars == <<passVars, runtimeVars>>

history == <<registrations, walkedScopes>>

\* mergeDefaults is not called
MergeOff ==
    /\ raw = <<>>
    /\ defaults = <<>>
    /\ props = <<>>
    /\ todo = {}
    /\ warned = {}
    /\ mpc = "off"

\* no instance is current
NoInstance == "null"

\* withAsyncContext is not called
AsyncOff ==
    /\ currentInstance = NoInstance
    /\ ctx = NoInstance
    /\ awaitable = <<>>
    /\ asyncWarned = FALSE
    /\ calls = <<>>
    /\ apc = "off"

inputs == <<ast, offset, vueImportAliases>>

(***************************************************************************)
(* The functions of the pass.                                              *)
(***************************************************************************)
\* the root scope after the loop over knownProps
SeededRootScope ==
    [n \in { knownProps[key].local : key \in DOMAIN knownProps } |-> TRUE]

\* propsLocalToPublicMap with the local name as the value
propsLocalToPublicMap_LocalName ==
    [n \in { knownProps[key].local : key \in DOMAIN knownProps } |-> n]

propsLocalToPublicMap ==
    [n \in { knownProps[key].local : key \in DOMAIN knownProps } |->
        CHOOSE key \in DOMAIN knownProps : knownProps[key].local = n]

\* What walkVariableDeclaration does with the declaration at p: the
\* identifiers it hands to registerLocalBinding (locals) and the ones it only
\* adds to excludedIds (excluded).
walkVariableDeclaration(tree, p, isRoot) ==
    LET stmt == NodeAt(tree, p)
        isDefineProps(i) ==
            /\ isRoot
            /\ Len(stmt.kids[i].kids) = 2
            /\ isCallOf(NodeAt(tree, unwrapTSNode(tree, p \o <<i, 2>>)), "defineProps")
        ids(i) == extractIdentifiers(tree, p \o <<i, 1>>)
        decls == 1..Len(stmt.kids)
    IN IF "declare" \in stmt.flags
       THEN [locals |-> {}, excluded |-> {}]
       ELSE [locals |-> UNION { ids(i) : i \in { j \in decls : ~isDefineProps(j) } },
             excluded |-> UNION { ids(i) : i \in { j \in decls : isDefineProps(j) } }]

\* What walkScope does with the statement at index i of the body of the node
\* at p.
walkScopeStmt(tree, p, i, isRoot) ==
    LET sp == Append(p, i)
        stmt == NodeAt(tree, sp)
        none == [locals |-> {}, excluded |-> {}]
    IN CASE stmt.type = "VariableDeclaration" ->
               walkVariableDeclaration(tree, sp, isRoot)
         [] stmt.type \in {"FunctionDeclaration", "ClassDeclaration"} ->
               IF "declare" \in stmt.flags \/ stmt.kids = <<>>
                  \/ stmt.kids[1].type # "Identifier"
               THEN none
               ELSE [locals |-> {Append(sp, 1)}, excluded |-> {}]
         [] /\ stmt.type \in {"ForOfStatement", "ForInStatement"}
            /\ stmt.kids[1].type = "VariableDeclaration" ->
               walkVariableDeclaration(tree, Append(sp, 1), FALSE)
         [] /\ stmt.type \in {"ExportNamedDeclaration", "LabeledStatement"}
            /\ stmt.kids # <<>>
            /\ stmt.kids[Len(stmt.kids)].type = "VariableDeclaration" ->
               walkVariableDeclaration(tree, Append(sp, Len(stmt.kids)), isRoot)
         [] OTHER -> none

walkScope(tree, p, isRoot) ==
    LET body == 1..Len(NodeAt(tree, p).kids) IN
    [locals |-> UNION { walkScopeStmt(tree, p, i, isRoot).locals : i \in body },
     excluded |-> UNION { walkScopeStmt(tree, p, i, isRoot).excluded : i \in body }]

\* registerLocalBinding for each of the identifiers ids, the current scope
\* being the one pushed for the node frame: the history of the calls after
Registered(reg, ids, frame) ==
    [id \in (DOMAIN reg) \cup ids |->
        (IF id \in DOMAIN reg THEN reg[id] ELSE <<>>)
        \o (IF id \in ids THEN <<frame>> ELSE <<>>)]

\* registerLocalBinding for each of the identifiers ids: the call of error()
\* it makes, with the first of them, when there is no current scope
registerError(tree, cur, ids) ==
    IF cur = 0 /\ ids # {}
    THEN [kind |-> "InternalInvariantViolation",
          node |-> CHOOSE id \in ids :
                      \A other \in ids : Rank(tree, id) <= Rank(tree, other),
          method |-> ""]
    ELSE NoError

\* registerLocalBinding for each of the identifiers ids: the scope stack after
RegisteredStack(tree, stack, cur, ids) ==
    IF cur = 0 \/ ids = {} THEN stack
    ELSE [stack EXCEPT ![cur] = PutAll(@, NamesOf(tree, ids), FALSE)]

\* s.overwrite(id.start + offset, id.end + offset, genPropsAccessExp(key))
OverwriteEdit(tree, off, id, key) ==
    [op |-> "overwrite", start |-> IdStart(tree, id) + off,
     end |-> IdEnd(tree, id) + off, text |-> genPropsAccessExp(key)]

\* s.appendLeft(id.end + offset, `: ${genPropsAccessExp(key)}`)
AppendLeftEdit(tree, off, id, key) ==
    [op |-> "appendLeft", start |-> IdEnd(tree, id) + off,
     end |-> IdEnd(tree, id) + off, text |-> <<": ">> \o genPropsAccessExp(key)]

\* the public name of the prop bound to a local name
PublicNameOf(name) ==
    CHOOSE key \in DOMAIN knownProps : knownProps[key].local = name

\* rewriteId without the test for the target of an UpdateExpression
rewriteId_UpdateNotChecked(tree, off, scope, id, pstack) ==
    LET name == NodeAt(tree, id).name
        parent == NodeAt(tree, Front(id))
        key == PublicNameOf(name)
        result(r, e, ed) == [returns |-> r, error |-> e, edits |-> ed]
    IN IF name \in DOMAIN scope
       THEN IF scope[name]
            THEN IF parent.type = "AssignmentExpression" /\ Last(id) = 1
                 THEN result(TRUE, [kind |-> "ReadonlyViolation", node |-> id,
                                    method |-> ""], <<>>)
                 ELSE IF isStaticProperty(parent) /\ "shorthand" \in parent.flags
                      THEN IF \/ "inPattern" \notin parent.flags
                              \/ isInDestructureAssignment(tree, parent, pstack)
                           THEN result(TRUE, NoError,
                                       <<AppendLeftEdit(tree, off, id, key)>>)
                           ELSE result(TRUE, NoError, <<>>)
                      ELSE result(TRUE, NoError,
                                  <<OverwriteEdit(tree, off, id, key)>>)
            ELSE result(TRUE, NoError, <<>>)
       ELSE result(FALSE, NoError, <<>>)

\* rewriteId with every shorthand property rewritten, those of patterns too
rewriteId_PatternNotSkipped(tree, off, scope, id, pstack) ==
    LET name == NodeAt(tree, id).name
        parent == NodeAt(tree, Front(id))
        key == PublicNameOf(name)
        result(r, e, ed) == [returns |-> r, error |-> e, edits |-> ed]
    IN IF name \in DOMAIN scope
       THEN IF scope[name]
            THEN IF \/ parent.type = "AssignmentExpression" /\ Last(id) = 1
                    \/ parent.type = "UpdateExpression"
                 THEN result(TRUE, [kind |-> "ReadonlyViolation", node |-> id,
                                    method |-> ""], <<>>)
                 ELSE IF isStaticProperty(parent) /\ "shorthand" \in parent.flags
                      THEN result(TRUE, NoError,
                                  <<AppendLeftEdit(tree, off, id, key)>>)
                      ELSE result(TRUE, NoError,
                                  <<OverwriteEdit(tree, off, id, key)>>)
            ELSE result(TRUE, NoError, <<>>)
       ELSE result(FALSE, NoError, <<>>)

\* rewriteId with the edit recorded before the test for an assignment
rewriteId_EditBeforeError(tree, off, scope, id, pstack) ==
    LET name == NodeAt(tree, id).name
        parent == NodeAt(tree, Front(id))
        key == PublicNameOf(name)
        result(r, e, ed) == [returns |-> r, error |-> e, edits |-> ed]
    IN IF name \in DOMAIN scope
       THEN IF scope[name]
            THEN IF \/ parent.type = "AssignmentExpression" /\ Last(id) = 1
                    \/ parent.type = "UpdateExpression"
                 THEN result(TRUE, [kind |-> "ReadonlyViolation", node |-> id,
                                    method |-> ""], <<OverwriteEdit(tree, off, id, key)>>)
                 ELSE IF isStaticProperty(parent) /\ "shorthand" \in parent.flags
                      THEN IF \/ "inPattern" \notin parent.flags
                              \/ isInDestructureAssignment(tree, parent, pstack)
                           THEN result(TRUE, NoError,
                                       <<AppendLeftEdit(tree, off, id, key)>>)
                           ELSE result(TRUE, NoError, <<>>)
                      ELSE result(TRUE, NoError,
                                  <<OverwriteEdit(tree, off, id, key)>>)
            ELSE result(TRUE, NoError, <<>>)
       ELSE result(FALSE, NoError, <<>>)

\* rewriteId with the shorthand branch falling through to the overwrite
rewriteId_ShorthandFallsThrough(tree, off, scope, id, pstack) ==
    LET name == NodeAt(tree, id).name
        parent == NodeAt(tree, Front(id))
        key == PublicNameOf(name)
        result(r, e, ed) == [returns |-> r, error |-> e, edits |-> ed]
    IN IF name \in DOMAIN scope
       THEN IF scope[name]
            THEN IF \/ parent.type = "AssignmentExpression" /\ Last(id) = 1
                    \/ parent.type = "UpdateExpression"
                 THEN result(TRUE, [kind |-> "ReadonlyViolation", node |-> id,
                                    method |-> ""], <<>>)
                 ELSE IF isStaticProperty(parent) /\ "shorthand" \in parent.flags
                      THEN IF \/ "inPattern" \notin parent.flags
                              \/ isInDestructureAssignment(tree, parent, pstack)
                           THEN result(TRUE, NoError,
                                       <<AppendLeftEdit(tree, off, id, key),
                                         OverwriteEdit(tree, off, id, key)>>)
                           ELSE result(TRUE, NoError, <<>>)
                      ELSE result(TRUE, NoError,
                                  <<OverwriteEdit(tree, off, id, key)>>)
            ELSE result(TRUE, NoError, <<>>)
       ELSE result(FALSE, NoError, <<>>)

\* The outcome of rewriteId(scope, id, parent, parentStack): what it returns,
\* the call of error() it makes and the edits it records.
rewriteId(tree, off, scope, id, pstack) ==
    LET name == NodeAt(tree, id).name
        parent == NodeAt(tree, Front(id))
        key == propsLocalToPublicMap[name]
        result(r, e, ed) == [returns |-> r, error |-> e, edits |-> ed]
    IN IF name \in DOMAIN scope
       THEN IF scope[name]
            THEN IF \/ parent.type = "AssignmentExpression" /\ Last(id) = 1
                    \/ parent.type = "UpdateExpression"
                 THEN result(TRUE, [kind |-> "ReadonlyViolation", node |-> id,
                                    method |-> ""], <<>>)
                 ELSE IF isStaticProperty(parent) /\ "shorthand" \in parent.flags
                      THEN IF \/ "inPattern" \notin parent.flags
                              \/ isInDestructureAssignment(tree, parent, pstack)
                           THEN result(TRUE, NoError,
                                       <<AppendLeftEdit(tree, off, id, key)>>)
                           ELSE result(TRUE, NoError, <<>>)
                      ELSE result(TRUE, NoError,
                                  <<OverwriteEdit(tree, off, id, key)>>)
            ELSE result(TRUE, NoError, <<>>)
       ELSE result(FALSE, NoError, <<>>)

\* walkScopeChain with the scope chain walked from the root scope up
RECURSIVE walkScopeChainUp(_, _, _, _, _, _)
walkScopeChainUp(tree, off, stack, i, id, pstack) ==
    IF i = 0 THEN [returns |-> FALSE, error |-> NoError, edits |-> <<>>]
    ELSE LET r == rewriteId(tree, off, stack[Len(stack) + 1 - i], id, pstack) IN
         IF r.returns THEN r
         ELSE walkScopeChainUp(tree, off, stack, i - 1, id, pstack)

walkScopeChain_RootFirst(tree, off, stack, i, id, pstack) ==
    walkScopeChainUp(tree, off, stack, i, id, pstack)

\* the loop of enter over the scope chain, from scopeStack[i] down
RECURSIVE walkScopeChain(_, _, _, _, _, _)
walkScopeChain(tree, off, stack, i, id, pstack) ==
    IF i = 0 THEN [returns |-> FALSE, error |-> NoError, edits |-> <<>>]
    ELSE LET r == rewriteId(tree, off, stack[i], id, pstack) IN
         IF r.returns THEN r
         ELSE walkScopeChain(tree, off, stack, i - 1, id, pstack)

\* the local name checkUsage looks for: alias = method by default
UsageAlias(aliases, method) ==
    IF method \in DOMAIN aliases THEN aliases[method] ELSE method

\* checkUsage with the test that the current scope holds the argument as a
\* prop
checkUsage_CurrentScopeOnly(tree, p, method, alias) ==
    LET node == NodeAt(tree, p) IN
    IF isCallOf(node, alias)
    THEN LET arg == unwrapTSNode(tree, Append(p, 2))
             name == NodeAt(tree, arg).name
         IN IF /\ NodeAt(tree, arg).type = "Identifier"
               /\ currentScope # 0
               /\ name \in DOMAIN scopeStack[currentScope]
               /\ scopeStack[currentScope][name]
            THEN [kind |-> "ReactivityTrackingMisuse", node |-> arg, method |-> method]
            ELSE NoError
    ELSE NoError

\* The call of error() checkUsage(node, method, alias) makes for the node at p.
checkUsage(tree, p, method, alias) ==
    LET node == NodeAt(tree, p) IN
    IF isCallOf(node, alias)
    THEN LET arg == unwrapTSNode(tree, Append(p, 2)) IN
         IF NodeAt(tree, arg).type = "Identifier"
         THEN [kind |-> "ReactivityTrackingMisuse", node |-> arg, method |-> method]
         ELSE NoError
    ELSE NoError

\* the two calls of checkUsage in enter: the first error() ends the pass
checkUsages(tree, p, aliases) ==
    LET w == checkUsage(tree, p, "watch", UsageAlias(aliases, "watch")) IN
    IF w # NoError THEN w
    ELSE checkUsage(tree, p, "toRef", UsageAlias(aliases, "toRef"))

\* the node types that start with TS
TSTypes ==
    TS_NODE_TYPES \cup {"TSTypeReference", "TSTypeAnnotation", "TSUnionType",
                        "TSTypeParameterInstantiation"}

\* the test of enter with the type annotations pruned only
IsTypeOnly_AnnotationOnly(t) == t = "TSTypeAnnotation"

\* skip type nodes: the test of enter on the type of the parent
IsTypeOnly(t) ==
    /\ t \in TSTypes
    /\ t \notin {"TSAsExpression", "TSNonNullExpression", "TSTypeAssertion"}

(***************************************************************************)
(* The walk: estree-walker calls enter on a node, then visits its kids     *)
(* unless enter called this.skip(), then calls leave; a skipped node gets  *)
(* no call of leave.                                                       *)
(***************************************************************************)
\* the walker goes on after the node at p is done with
Advance(p) ==
    IF p = <<>>
    THEN /\ pc' = "done"
         /\ path' = p
    ELSE IF Last(p) < Len(NodeAt(ast, Front(p)).kids)
         THEN /\ pc' = "enter"
              /\ path' = Append(Front(p), Last(p) + 1)
         ELSE /\ pc' = "leave"
              /\ path' = Front(p)

\* the walker goes on after enter returned without this.skip()
Descend(p) ==
    IF NodeAt(ast, p).kids # <<>>
    THEN /\ pc' = "enter"
         /\ path' = Append(p, 1)
    ELSE /\ pc' = "leave"
         /\ path' = p

\* parent && parentStack.push(parent)
PushedParents == IF path = <<>> THEN parentStack ELSE Append(parentStack, Front(path))

SkipsTypeNode == path # <<>> /\ IsTypeOnly(NodeAt(ast, Front(path)).type)

\* the function starts: the root scope is seeded and walkScope(ast, true) runs
Start ==
    /\ pc = "start"
    /\ LET w == walkScope(ast, <<>>, TRUE) IN
       /\ scopeStack' = RegisteredStack(ast, <<SeededRootScope>>, currentScope,
                                        w.locals)
       /\ excludedIds' = w.locals \cup w.excluded
       /\ registrations' = Registered(registrations, w.locals, <<>>)
       /\ err' = registerError(ast, currentScope, w.locals)
       /\ pc' = IF registerError(ast, currentScope, w.locals) # NoError
                THEN "error" ELSE "enter"
    /\ walkedScopes' = Append(walkedScopes, <<>>)
    /\ UNCHANGED <<inputs, runtimeVars, frameOwner, currentScope, parentStack, edits, path>>

\* enter, the child of a type node: this.skip()
EnterTypeNode ==
    /\ pc = "enter"
    /\ SkipsTypeNode
    /\ parentStack' = PushedParents
    /\ Advance(path)
    /\ UNCHANGED <<inputs, runtimeVars, scopeStack, frameOwner, currentScope, excludedIds,
                   history, edits, err>>

\* enter, a call of watch or toRef with an identifier: checkUsage calls error()
EnterMisuse ==
    /\ pc = "enter"
    /\ ~SkipsTypeNode
    /\ checkUsages(ast, path, vueImportAliases) # NoError
    /\ parentStack' = PushedParents
    /\ err' = checkUsages(ast, path, vueImportAliases)
    /\ pc' = "error"
    /\ UNCHANGED <<inputs, runtimeVars, scopeStack, frameOwner, currentScope, excludedIds,
                   history, edits, path>>

\* what the three scope branches of enter share: a scope is pushed and the
\* identifiers ids are registered in it, then those only excluded
PushScope(locals, excluded, walked) ==
    LET pushed == Append(scopeStack, EmptyScope)
        cur == Len(pushed)
    IN /\ scopeStack' = RegisteredStack(ast, pushed, cur, locals)
       /\ frameOwner' = Append(frameOwner, path)
       /\ currentScope' = cur
       /\ excludedIds' = excludedIds \cup locals \cup excluded
       /\ registrations' = Registered(registrations, locals, path)
       /\ walkedScopes' = walkedScopes \o walked
       /\ parentStack' = PushedParents
       /\ err' = registerError(ast, cur, locals)
       /\ IF registerError(ast, cur, locals) # NoError
          THEN pc' = "error" /\ path' = path
          ELSE Descend(path)
       /\ UNCHANGED <<inputs, runtimeVars, edits>>

UsageOk ==
    /\ pc = "enter"
    /\ ~SkipsTypeNode
    /\ checkUsages(ast, path, vueImportAliases) = NoError

\* enter, function scopes
EnterFunction ==
    /\ UsageOk
    /\ isFunctionType(NodeAt(ast, path))
    /\ LET node == NodeAt(ast, path)
           body == Append(path, Len(node.kids))
           w == IF NodeAt(ast, body).type = "BlockStatement"
                THEN walkScope(ast, body, FALSE)
                ELSE [locals |-> {}, excluded |-> {}]
       IN PushScope(walkFunctionParams(ast, path) \cup w.locals, w.excluded,
                    IF NodeAt(ast, body).type = "BlockStatement"
                    THEN <<body>> ELSE <<>>)

\* enter, catch param
EnterCatchClause ==
    /\ UsageOk
    /\ ~isFunctionType(NodeAt(ast, path))
    /\ NodeAt(ast, path).type = "CatchClause"
    /\ LET node == NodeAt(ast, path)
           param == IF Len(node.kids) = 2 /\ node.kids[1].type = "Identifier"
                    THEN {Append(path, 1)}
                    ELSE {}
           w == walkScope(ast, Append(path, Len(node.kids)), FALSE)
       IN PushScope(param \cup w.locals, w.excluded,
                    <<Append(path, Len(node.kids))>>)

IsNonFunctionBlock(p) ==
    /\ NodeAt(ast, p).type = "BlockStatement"
    /\ p # <<>>
    /\ ~isFunctionType(NodeAt(ast, Front(p)))

\* enter of a block that pushes the scope and leaves the declarations of
\* the block to be met by the walk
EnterBlock_NoWalkScope ==
    /\ UsageOk
    /\ IsNonFunctionBlock(path)
    /\ PushScope({}, {}, <<>>)

\* enter, non-function block scopes
EnterBlock ==
    /\ UsageOk
    /\ IsNonFunctionBlock(path)
    /\ LET w == walkScope(ast, path, FALSE) IN
       PushScope(w.locals, w.excluded, <<path>>)

\* enter, an identifier
EnterIdentifier ==
    /\ UsageOk
    /\ NodeAt(ast, path).type = "Identifier"
    /\ parentStack' = PushedParents
    /\ LET r == IF /\ isReferencedIdentifier(ast, path, PushedParents)
                   /\ path \notin excludedIds
                THEN walkScopeChain(ast, offset, scopeStack, Len(scopeStack), path,
                                    PushedParents)
                ELSE [returns |-> FALSE, error |-> NoError, edits |-> <<>>]
       IN /\ edits' = edits \o r.edits
          /\ err' = r.error
          /\ IF r.error # NoError
             THEN pc' = "error" /\ path' = path
             ELSE Descend(path)
    /\ UNCHANGED <<inputs, runtimeVars, scopeStack, frameOwner, currentScope, excludedIds,
                   history>>

\* enter, any other node
EnterOther ==
    /\ UsageOk
    /\ ~isFunctionType(NodeAt(ast, path))
    /\ NodeAt(ast, path).type \notin {"CatchClause", "Identifier"}
    /\ ~IsNonFunctionBlock(path)
    /\ parentStack' = PushedParents
    /\ Descend(path)
    /\ UNCHANGED <<inputs, runtimeVars, scopeStack, frameOwner, currentScope, excludedIds,
                   history, edits, err>>

\* parent && parentStack.pop()
PoppedParents ==
    IF path = <<>> \/ parentStack = <<>> THEN parentStack
    ELSE SubSeq(parentStack, 1, Len(parentStack) - 1)

\* the test of leave without !isFunctionType(parent): the body of a function
\* pops too
LeavesScope_EveryBlock ==
    \/ NodeAt(ast, path).type = "BlockStatement"
    \/ isFunctionType(NodeAt(ast, path))

LeavesScope == IsNonFunctionBlock(path) \/ isFunctionType(NodeAt(ast, path))

\* leave, a non-function block or a function: the scope stack is popped
LeaveScope ==
    /\ pc = "leave"
    /\ LeavesScope
    /\ parentStack' = PoppedParents
    /\ scopeStack' = SubSeq(scopeStack, 1, Len(scopeStack) - 1)
    /\ frameOwner' = SubSeq(frameOwner, 1, Len(frameOwner) - 1)
    /\ currentScope' = IF Len(scopeStack) >= 2 THEN Len(scopeStack) - 1 ELSE 0
    /\ Advance(path)
    /\ UNCHANGED <<inputs, runtimeVars, excludedIds, history, edits, err>>

\* leave, any other node
LeaveOther ==
    /\ pc = "leave"
    /\ ~LeavesScope
    /\ parentStack' = PoppedParents
    /\ Advance(path)
    /\ UNCHANGED <<inputs, runtimeVars, scopeStack, frameOwner, currentScope, excludedIds,
                   history, edits, err>>

Next ==
    \/ Start
    \/ EnterTypeNode
    \/ EnterMisuse
    \/ EnterFunction
    \/ EnterCatchClause
    \/ EnterBlock
    \/ EnterIdentifier
    \/ EnterOther
    \/ LeaveScope
    \/ LeaveOther

(***************************************************************************)
(* The programs the pass is run on.  Each starts with the defineProps      *)
(* destructure; no scope of a program declares a name twice, as the parser *)
(* demands, and every call of watch or toRef has a first argument.         *)
(***************************************************************************)
\* the statements without a body of the programs of nested scopes
ScopeLeaves ==
    { ExprStmt(Id("count")),
      ExprStmt(Assign(Id("count"), Lit)),
      VarDecl(Id("count"), Lit) }

\* the statements with a body
Wrappers == {"function", "block", "catch", "catchNoParam", "catchPattern", "forOf"}

Wrap(w, body) ==
    CASE w = "function" -> FuncDecl("f", <<Id("count")>>, body)
      [] w = "block" -> Block(body)
      [] w = "catch" -> TryCatch(<<Id("count")>>, body)
      [] w = "catchNoParam" -> TryCatch(<<>>, body)
      [] w = "catchPattern" -> TryCatch(<<ObjectPat(<<ShorthandPat("count")>>)>>, body)
      [] w = "forOf" -> ForOf("count", body)

\* the statements, and the statement lists, of exactly k statements in all
RECURSIVE StmtsOfSize(_), BodiesOfSize(_)
StmtsOfSize(k) ==
    IF k = 1
    THEN ScopeLeaves \cup { Wrap(w, <<>>) : w \in Wrappers }
    ELSE { Wrap(w, b) : w \in Wrappers, b \in BodiesOfSize(k - 1) }

BodiesOfSize(k) ==
    IF k = 0 THEN { <<>> }
    ELSE UNION { { <<st>> \o rest : st \in StmtsOfSize(j), rest \in BodiesOfSize(k - j) } :
                    j \in 1..k }

\* the names of the references of the expression programs
RefNames == {"count", "aliasedLabel", "foo"}

Callees == {"watch", "toRef", "w", "fn"}

Exprs ==
    { Id(n) : n \in RefNames }
    \cup { Assign(Id(n), Lit) : n \in RefNames }
    \cup { Assign(Id("foo"), Id(n)) : n \in RefNames }
    \cup { Update(Id(n)) : n \in RefNames }
    \cup { Update(TSNonNull(Id("count"))) }
    \cup { Call(c, <<a>>) :
              c \in Callees,
              a \in { Id(n) : n \in RefNames }
                    \cup { TSAs(Id("count"), "T"), Arrow(<<>>, Id("count")) } }
    \cup { Call("fn", <<Id("aliasedLabel"), x>>) :
              x \in { Id("count"), Update(Id("count")), Assign(Id("count"), Lit),
                      Call("watch", <<Id("count")>>),
                      ObjectExpr(<<ShorthandProp("count")>>) } }
    \cup { ObjectExpr(<<ShorthandProp(n)>>) : n \in RefNames }
    \cup { ObjectExpr(<<KeyedProp("count", Id(n))>>) : n \in {"count", "foo"} }
    \cup { Assign(ObjectPat(<<ShorthandPat(n)>>), Id("foo")) : n \in RefNames }
    \cup { Assign(ObjectPat(<<KeyedPat("foo", "count")>>), Id("foo")) }
    \cup { TSAs(Id(n), t) : n \in {"count", "foo"}, t \in {"count", "T"} }
    \cup { Arrow(<<Id(q)>>, Id("count")) : q \in {"count", "foo"} }

\* an expression statement at the top level, after a declaration of foo, in
\* a function with the parameter count, in a catch clause with a
\* destructured parameter, and in a function of a block that declares count
\* after the function
ExprBodies ==
    UNION { { <<ExprStmt(e)>>,
              <<VarDecl(Id("foo"), Lit), ExprStmt(e)>>,
              <<FuncDecl("f", <<Id("count")>>, <<ExprStmt(e)>>)>>,
              <<TryCatch(<<ObjectPat(<<KeyedPat("label", "aliasedLabel")>>)>>,
                         <<ExprStmt(e)>>)>>,
              <<Block(<<FuncDecl("g", <<>>, <<ExprStmt(e)>>),
                        VarDecl(Id("count"), Lit)>>)>> } :
            e \in Exprs }

\* the nodes that open a lexical scope, and the identifiers each declares
OpensScope(tree, p) ==
    LET n == NodeAt(tree, p) IN
    \/ n.type \in {"Program", "CatchClause", "ForOfStatement"}
    \/ isFunctionType(n)
    \/ /\ n.type = "BlockStatement"
       /\ ~isFunctionType(NodeAt(tree, Front(p)))
       /\ NodeAt(tree, Front(p)).type # "CatchClause"

DeclaredByBody(tree, p) ==
    LET n == NodeAt(tree, p) IN
    UNION { LET st == n.kids[i] IN
            CASE st.type = "VariableDeclaration" ->
                    UNION { extractIdentifiers(tree, p \o <<i, j, 1>>) :
                               j \in 1..Len(st.kids) }
              [] st.type = "FunctionDeclaration" -> { p \o <<i, 1>> }
              [] OTHER -> {} :
            i \in 1..Len(n.kids) }

DeclaredBy(tree, p) ==
    LET n == NodeAt(tree, p)
        body == Append(p, Len(n.kids))
    IN CASE n.type \in {"Program", "BlockStatement"} -> DeclaredByBody(tree, p)
         [] isFunctionType(n) ->
               walkFunctionParams(tree, p)
               \cup (IF NodeAt(tree, body).type = "BlockStatement"
                     THEN DeclaredByBody(tree, body) ELSE {})
         [] n.type = "CatchClause" ->
               (IF Len(n.kids) = 2 THEN extractIdentifiers(tree, Append(p, 1)) ELSE {})
               \cup DeclaredByBody(tree, body)
         [] n.type = "ForOfStatement" ->
               IF n.kids[1].type = "VariableDeclaration"
               THEN DeclaredByBody(tree, p) ELSE {}
         [] OTHER -> {}

WellFormed(tree) ==
    \A p \in PathsUnder(tree, <<>>) :
        OpensScope(tree, p) =>
            \A q1, q2 \in DeclaredBy(tree, p) :
                NodeAt(tree, q1).name = NodeAt(tree, q2).name => q1 = q2

ScopePrograms ==
    { t \in { Program(<<DefinePropsDecl>> \o b) :
                 b \in UNION { BodiesOfSize(k) : k \in 0..MaxStmts } } :
        WellFormed(t) }

ExprPrograms ==
    { t \in { Program(<<DefinePropsDecl>> \o b) : b \in ExprBodies } : WellFormed(t) }

\* the tables of the imports from vue: none, and watch imported as w
AliasTables == { [m \in {} |-> ""], [m \in {"watch"} |-> "w"] }

Init ==
    /\ \/ /\ ast \in ScopePrograms
          /\ offset = 0
          /\ vueImportAliases = [m \in {} |-> ""]
       \/ /\ ast \in ExprPrograms
          /\ offset \in {0, BlockOffset}
          /\ vueImportAliases \in AliasTables
    /\ scopeStack = <<EmptyScope>>
    /\ frameOwner = << <<>> >>
    /\ currentScope = 1
    /\ excludedIds = {}
    /\ parentStack = <<>>
    /\ registrations = [id \in {} |-> <<>>]
    /\ walkedScopes = <<>>
    /\ edits = <<>>
    /\ err = NoError
    /\ path = <<>>
    /\ pc = "start"
    /\ dev = FALSE
    /\ MergeOff
    /\ AsyncOff

Spec == Init /\ [][Next]_vars

(***************************************************************************)
(* mergeDefaults, the runtime helper the compiled destructure calls with   *)
(* the declared props and the destructure defaults.                        *)
(*                                                                         *)
(* A key is the sequence of the pieces of its text: "a" is <<"a">>,        *)
(* "__skip_a" is <<"__skip", "_", "a">> and "__skipper" is                 *)
(* <<"__skip", "per">>.  A declaration is a record: kind is null,          *)
(* function, array or object; type is the constructor (or the list of      *)
(* constructors) of a function or array declaration; fields are the        *)
(* properties of an object declaration.  Property values are strings, the  *)
(* empty string being the falsy one.  The keys are own properties of the   *)
(* objects: no key here is a name Object.prototype supplies.               *)
(***************************************************************************)
SkipPrefix == "__skip"

startsWithSkip(key) == Head(key) = SkipPrefix

\* `__skip_${key}`
skipKeyOf(key) == <<SkipPrefix, "_">> \o key

NullDecl == [kind |-> "null", type |-> "", fields |-> <<>>]

FunctionDecl(t) == [kind |-> "function", type |-> t, fields |-> <<>>]

ArrayDecl(t) == [kind |-> "array", type |-> t, fields |-> <<>>]

ObjectDecl(f) == [kind |-> "object", type |-> "", fields |-> f]

isArray(opt) == opt.kind = "array"

isFunction(opt) == opt.kind = "function"

\* the truthiness of a property value
Truthy(v) == v # ""

\* raw as an array of names, and raw as an object of declarations
RawArray(names) == [array |-> TRUE, names |-> names, decls |-> <<>>]

RawObject(decls) == [array |-> FALSE, names |-> <<>>, decls |-> decls]

\* lines 292-297: an array of names becomes an object of empty declarations
normalizeRaw(r) ==
    IF r.array
    THEN [key \in { r.names[i] : i \in 1..Len(r.names) } |-> ObjectDecl(<<>>)]
    ELSE r.decls

\* f with field k set to v
SetField(f, k, v) == (k :> v) @@ f

\* p with the entry of key set to opt
SetEntry(p, key, opt) == (key :> opt) @@ p

\* lines 312-314, for an entry opt that exists
skipFactoryStep(opt, d, key) ==
    IF skipKeyOf(key) \in DOMAIN d /\ Truthy(d[skipKeyOf(key)])
    THEN ObjectDecl(SetField(opt.fields, "skipFactory", "true"))
    ELSE opt

\* lines 300-314 with the null declaration taken for an absent one
mergeEntry_NullAsAbsent(p, d, key) ==
    IF key \notin DOMAIN p \/ p[key].kind = "null"
    THEN p
    ELSE LET opt == p[key]
             merged ==
                 IF isArray(opt) \/ isFunction(opt)
                 THEN ObjectDecl(("type" :> opt.type) @@ ("default" :> d[key]))
                 ELSE ObjectDecl(SetField(opt.fields, "default", d[key]))
         IN  SetEntry(p, key, skipFactoryStep(merged, d, key))

\* lines 300-314: one iteration of the loop for a key that is not skipped;
\* the props after it
mergeEntry(p, d, key) ==
    IF key \notin DOMAIN p
    THEN p
    ELSE LET opt == p[key]
             merged ==
                 IF opt.kind # "null"
                 THEN IF isArray(opt) \/ isFunction(opt)
                      THEN ObjectDecl(("type" :> opt.type) @@ ("default" :> d[key]))
                      ELSE ObjectDecl(SetField(opt.fields, "default", d[key]))
                 ELSE ObjectDecl("default" :> d[key])
         IN  SetEntry(p, key, skipFactoryStep(merged, d, key))

\* lines 309-311: the iteration warns
warnsFor(p, key) == dev /\ key \notin DOMAIN p

\* the compiler pass is not run
PassOff ==
    /\ ast = Program(<<>>)
    /\ offset = 0
    /\ vueImportAliases = <<>>
    /\ scopeStack = <<>>
    /\ frameOwner = <<>>
    /\ currentScope = 0
    /\ excludedIds = {}
    /\ parentStack = <<>>
    /\ registrations = <<>>
    /\ walkedScopes = <<>>
    /\ edits = <<>>
    /\ err = NoError
    /\ path = <<>>
    /\ pc = "off"

\* lines 292-297: the call, up to the loop
MergeNormalize ==
    /\ mpc = "call"
    /\ props' = normalizeRaw(raw)
    /\ todo' = DOMAIN defaults
    /\ mpc' = "loop"
    /\ UNCHANGED <<passVars, asyncVars, raw, defaults, dev, warned>>

\* line 299: a key that starts with __skip is passed over
MergeSkipKey ==
    /\ mpc = "loop"
    /\ \E key \in todo :
        /\ startsWithSkip(key)
        /\ todo' = todo \ {key}
    /\ UNCHANGED <<passVars, asyncVars, raw, defaults, dev, props, warned, mpc>>

\* lines 301-306 and 312-314: the key has a truthy declaration
MergeDeclared ==
    /\ mpc = "loop"
    /\ \E key \in todo :
        /\ ~startsWithSkip(key)
        /\ key \in DOMAIN props
        /\ props[key].kind # "null"
        /\ props' = mergeEntry(props, defaults, key)
        /\ todo' = todo \ {key}
    /\ UNCHANGED <<passVars, asyncVars, raw, defaults, dev, warned, mpc>>

\* lines 307-308 and 312-314: the key is declared null
MergeNull ==
    /\ mpc = "loop"
    /\ \E key \in todo :
        /\ ~startsWithSkip(key)
        /\ key \in DOMAIN props
        /\ props[key].kind = "null"
        /\ props' = mergeEntry(props, defaults, key)
        /\ todo' = todo \ {key}
    /\ UNCHANGED <<passVars, asyncVars, raw, defaults, dev, warned, mpc>>

\* lines 309-311: the key has no declaration
MergeAbsent ==
    /\ mpc = "loop"
    /\ \E key \in todo :
        /\ ~startsWithSkip(key)
        /\ key \notin DOMAIN props
        /\ props' = mergeEntry(props, defaults, key)
        /\ warned' = IF warnsFor(props, key) THEN warned \cup {key} ELSE warned
        /\ todo' = todo \ {key}
    /\ UNCHANGED <<passVars, asyncVars, raw, defaults, dev, mpc>>

\* line 316
MergeReturn ==
    /\ mpc = "loop"
    /\ todo = {}
    /\ mpc' = "returned"
    /\ UNCHANGED <<passVars, asyncVars, raw, defaults, dev, props, todo, warned>>

NextMerge ==
    \/ MergeNormalize
    \/ MergeSkipKey
    \/ MergeDeclared
    \/ MergeNull
    \/ MergeAbsent
    \/ MergeReturn

\* the calls mergeDefaults is explored for
PropKeys == {<<"a">>, <<"b">>, <<SkipPrefix, "per">>}

DefaultKeys == PropKeys \cup {skipKeyOf(<<"a">>)}

DefaultValues == {"d1", ""}

Declarations ==
    {NullDecl, FunctionDecl("Number"), ArrayDecl("Number|String"),
     ObjectDecl(<<>>), ObjectDecl("type" :> "Number"),
     ObjectDecl(("type" :> "Number") @@ ("default" :> "d0"))}

RawArrays == {RawArray(names) : names \in {<<>>, << <<"a">> >>, << <<"b">> >>,
                                           << <<"a">>, <<"b">> >>}}

RawObjects ==
    {RawObject(decls) : decls \in UNION {[keys -> Declarations] : keys \in SUBSET PropKeys}}

DefaultsObjects == UNION {[keys -> DefaultValues] : keys \in SUBSET DefaultKeys}

InitMerge ==
    /\ PassOff
    /\ AsyncOff
    /\ raw \in RawArrays \cup RawObjects
    /\ defaults \in DefaultsObjects
    /\ dev \in BOOLEAN
    /\ props = <<>>
    /\ todo = {}
    /\ warned = {}
    /\ mpc = "call"

SpecMerge == InitMerge /\ [][NextMerge]_vars

(***************************************************************************)
(* withAsyncContext, the runtime helper the compiled `await` of an async   *)
(* setup() goes through, with the caller the compiler generates for it:    *)
(*   ([__temp, __restore] = withAsyncContext(() => foo())),                *)
(*   __temp = await __temp, __restore(), __temp                            *)
(* The current instance is the module state of ./component; other code     *)
(* runs, and may change it, only while the caller is suspended.            *)
(***************************************************************************)
Instances == {"i1", "i2"}

getCurrentInstance(cur) == cur

setCurrentInstance(instance) == instance

unsetCurrentInstance == NoInstance

\* what getAwaitable can return: a plain value, or a promise that is
\* fulfilled or rejected later
Awaitables ==
    {[promise |-> FALSE, settles |-> "fulfilled", caught |-> FALSE],
     [promise |-> TRUE, settles |-> "fulfilled", caught |-> FALSE],
     [promise |-> TRUE, settles |-> "rejected", caught |-> FALSE]}

isPromise(a) == a.promise

Made(op, arg, by) == [op |-> op, arg |-> arg, by |-> by]

\* lines 369-372 with the handler rethrowing without the instance set
rejectionHandler_RethrowOnly(cur, c) ==
    [current |-> cur, calls |-> <<Made("rethrow", cur, "handler")>>]

\* lines 369-372: the handler of a rejection, run with cur current, for the
\* captured instance c; the current instance it leaves and the calls it makes
rejectionHandler(cur, c) ==
    [current |-> setCurrentInstance(c),
     calls |-> <<Made("setCurrentInstance", c, "handler"),
                 Made("rethrow", setCurrentInstance(c), "handler")>>]

\* line 374: the restore function, for the captured instance c
restore(c) == setCurrentInstance(c)

\* lines 359-365
AsyncCapture ==
    /\ apc = "call"
    /\ ctx' = getCurrentInstance(currentInstance)
    /\ asyncWarned' = (dev /\ ctx' = NoInstance)
    /\ calls' = Append(calls, Made("getCurrentInstance", currentInstance, "helper"))
    /\ apc' = "captured"
    /\ UNCHANGED <<passVars, mergeVars, dev, currentInstance, awaitable>>

\* line 366: getAwaitable returns
AsyncGetAwaitable ==
    /\ apc = "captured"
    /\ awaitable' \in Awaitables
    /\ calls' = Append(calls, Made("getAwaitable", currentInstance, "helper"))
    /\ apc' = "got"
    /\ UNCHANGED <<passVars, mergeVars, dev, currentInstance, ctx, asyncWarned>>

\* line 366: getAwaitable throws, and the helper with it
AsyncGetAwaitableThrows ==
    /\ apc = "captured"
    /\ calls' = Append(calls, Made("getAwaitable", currentInstance, "helper"))
    /\ apc' = "threw"
    /\ UNCHANGED <<passVars, mergeVars, dev, currentInstance, ctx, awaitable,
                   asyncWarned>>

\* line 367
AsyncUnset ==
    /\ apc = "got"
    /\ currentInstance' = unsetCurrentInstance
    /\ calls' = Append(calls, Made("unsetCurrentInstance", NoInstance, "helper"))
    /\ apc' = "unset"
    /\ UNCHANGED <<passVars, mergeVars, dev, ctx, awaitable, asyncWarned>>

\* lines 368-374: the handler is attached to a promise, and the helper
\* returns
AsyncReturn ==
    /\ apc = "unset"
    /\ awaitable' = [awaitable EXCEPT !.caught = isPromise(awaitable)]
    /\ calls' = Append(calls, Made("return", currentInstance, "helper"))
    /\ apc' = "returned"
    /\ UNCHANGED <<passVars, mergeVars, dev, currentInstance, ctx, asyncWarned>>

\* lines 350-355: the caller awaits what the helper returned
CallerAwaits ==
    /\ apc = "returned"
    /\ apc' = "awaiting"
    /\ UNCHANGED <<passVars, mergeVars, dev, currentInstance, ctx, awaitable,
                   asyncWarned, calls>>

\* while the caller is suspended, or between the handler's rethrow and the
\* caller's continuation, other code sets or unsets the current instance
OtherCode ==
    /\ apc \in {"awaiting", "rethrown"}
    /\ \E instance \in (Instances \cup {NoInstance}) \ {currentInstance} :
        currentInstance' = instance
    /\ UNCHANGED <<passVars, mergeVars, dev, ctx, awaitable, asyncWarned, calls,
                   apc>>

\* the awaited value is there: the caller's continuation starts
AwaitFulfilled ==
    /\ apc = "awaiting"
    /\ awaitable.settles = "fulfilled"
    /\ apc' = "resumed"
    /\ UNCHANGED <<passVars, mergeVars, dev, currentInstance, ctx, awaitable,
                   asyncWarned, calls>>

\* lines 350-355 and 374: the continuation calls __restore() first
CallerRestores ==
    /\ apc = "resumed"
    /\ currentInstance' = restore(ctx)
    /\ calls' = Append(calls, Made("setCurrentInstance", ctx, "restore"))
    /\ apc' = "restored"
    /\ UNCHANGED <<passVars, mergeVars, dev, ctx, awaitable, asyncWarned>>

\* lines 369-372: the promise is rejected and the handler runs
AwaitRejected ==
    /\ apc = "awaiting"
    /\ awaitable.settles = "rejected"
    /\ awaitable.caught
    /\ currentInstance' = rejectionHandler(currentInstance, ctx).current
    /\ calls' = calls \o rejectionHandler(currentInstance, ctx).calls
    /\ apc' = "rethrown"
    /\ UNCHANGED <<passVars, mergeVars, dev, ctx, awaitable, asyncWarned>>

\* the code of the caller after the await: the rest of setup() once
\* restored, or whatever catches the rethrown error
CallerContinues ==
    /\ apc \in {"restored", "rethrown"}
    /\ calls' = Append(calls, Made("afterAwait", currentInstance, "caller"))
    /\ apc' = "done"
    /\ UNCHANGED <<passVars, mergeVars, dev, currentInstance, ctx, awaitable,
                   asyncWarned>>

NextAsync ==
    \/ AsyncCapture
    \/ AsyncGetAwaitable
    \/ AsyncGetAwaitableThrows
    \/ AsyncUnset
    \/ AsyncReturn
    \/ CallerAwaits
    \/ OtherCode
    \/ AwaitFulfilled
    \/ CallerRestores
    \/ AwaitRejected
    \/ CallerContinues

InitAsync ==
    /\ PassOff
    /\ MergeOff
    /\ dev \in BOOLEAN
    /\ currentInstance \in Instances \cup {NoInstance}
    /\ ctx = NoInstance
    /\ awaitable = <<>>
    /\ asyncWarned = FALSE
    /\ calls = <<>>
    /\ apc = "call"

SpecAsync == InitAsync /\ [][NextAsync]_vars

(***************************************************************************)
(* The vocabulary of the properties: what a program means, told from the   *)
(* tree alone, and what the pass recorded for a node.                      *)
(***************************************************************************)
Identifiers == { p \in PathsUnder(ast, <<>>) : NodeAt(ast, p).type = "Identifier" }

NameAt(p) == NodeAt(ast, p).name

PropLocals == { knownProps[key].local : key \in DOMAIN knownProps }

\* the pass has ended: the walk is over, or error() was called
Ended == pc \in {"done", "error"}

\* the node at p lies in a type position: an ancestor of it is a type node
InTypePosition(p) ==
    \E k \in 0..(Len(p) - 1) : IsTypeOnly(NodeAt(ast, SubSeq(p, 1, k)).type)

\* the expression at p is evaluated for its value
RECURSIVE ReadPosition(_)
ReadPosition(p) ==
    LET parent == NodeAt(ast, Front(p))
        i == Last(p)
    IN CASE parent.type \in {"ExpressionStatement", "CallExpression"} -> TRUE
         [] parent.type \in {"AssignmentExpression", "VariableDeclarator",
                             "ForOfStatement"} -> i = 2
         [] parent.type = "ObjectProperty" ->
               i = 2 /\ NodeAt(ast, Front(Front(p))).type = "ObjectExpression"
         [] parent.type = "ArrowFunctionExpression" -> i = Len(parent.kids)
         [] parent.type \in TS_NODE_TYPES -> i = 1 /\ ReadPosition(Front(p))
         [] OTHER -> FALSE

\* a genuine read reference
GenuineRead(p) ==
    /\ p \in Identifiers
    /\ ~InTypePosition(p)
    /\ ReadPosition(p)

\* the proper ancestors of p that satisfy Opens, the Program node left out
Enclosing(p, Opens(_, _)) ==
    { a \in { SubSeq(p, 1, k) : k \in 1..(Len(p) - 1) } : Opens(ast, a) }

\* a function, catch clause, block or loop around p declares the name of p
LexShadowed(p) ==
    \E a \in Enclosing(p, OpensScope) : NameAt(p) \in NamesOf(ast, DeclaredBy(ast, a))

\* the identifier at p is where a name is declared
DeclarationSite(p) ==
    \E a \in PathsUnder(ast, <<>>) : OpensScope(ast, a) /\ p \in DeclaredBy(ast, a)

NonShorthandKey(p) ==
    /\ p \in Identifiers
    /\ NodeAt(ast, Front(p)).type = "ObjectProperty"
    /\ "shorthand" \notin NodeAt(ast, Front(p)).flags
    /\ Last(p) = 1

\* the edits recorded on the span of the identifier at p
Overwrites(p) ==
    { i \in 1..Len(edits) :
        /\ edits[i].op = "overwrite"
        /\ edits[i].start = IdStart(ast, p) + offset
        /\ edits[i].end = IdEnd(ast, p) + offset }

Insertions(p) ==
    { i \in 1..Len(edits) :
        /\ edits[i].op = "appendLeft"
        /\ edits[i].start = IdEnd(ast, p) + offset }

EditsAt(p) == Overwrites(p) \cup Insertions(p)

\* the reference at p was rewritten to the access form
Rewritten(p) == EditsAt(p) # {}

\* the nodes enter pushes a scope for, the Program node standing for the
\* root scope, and the identifiers registered as local in that scope
HasFrame(tree, p) ==
    \/ p = <<>>
    \/ isFunctionType(NodeAt(tree, p))
    \/ NodeAt(tree, p).type = "CatchClause"
    \/ /\ NodeAt(tree, p).type = "BlockStatement"
       /\ ~isFunctionType(NodeAt(tree, Front(p)))

RegisteredIn(tree, p) ==
    LET n == NodeAt(tree, p)
        body == Append(p, Len(n.kids))
    IN CASE p = <<>> -> walkScope(tree, p, TRUE).locals
         [] isFunctionType(n) ->
               walkFunctionParams(tree, p)
               \cup (IF NodeAt(tree, body).type = "BlockStatement"
                     THEN walkScope(tree, body, FALSE).locals ELSE {})
         [] n.type = "CatchClause" ->
               (IF Len(n.kids) = 2 /\ n.kids[1].type = "Identifier"
                THEN {Append(p, 1)} ELSE {})
               \cup walkScope(tree, body, FALSE).locals
         [] OTHER -> walkScope(tree, p, FALSE).locals

\* the scope the name resolves to in the scope chain as it stands: the index
\* of the innermost scope that owns it, 0 when none does
RECURSIVE Resolve(_, _, _)
Resolve(stack, i, name) ==
    IF i = 0 THEN 0
    ELSE IF name \in DOMAIN stack[i] THEN i ELSE Resolve(stack, i - 1, name)

ResolvesToProp(name) ==
    LET i == Resolve(scopeStack, Len(scopeStack), name) IN i # 0 /\ scopeStack[i][name]

(***************************************************************************)
(* C1: every genuine read reference to a prop that no enclosing function,  *)
(* catch clause or block shadows is rewritten once the pass is done,       *)
(* whatever was traversed before it; and no declaration site and no        *)
(* non-shorthand property key has received an edit when the pass ends.     *)
(***************************************************************************)
C1_UnshadowedReadsRewritten ==
    /\ pc = "done" =>
          \A p \in Identifiers :
              (GenuineRead(p) /\ NameAt(p) \in PropLocals /\ ~LexShadowed(p))
                  => Rewritten(p)
    /\ Ended =>
          \A p \in Identifiers :
              (DeclarationSite(p) \/ NonShorthandKey(p)) => EditsAt(p) = {}

(***************************************************************************)
(* C2: shadow always wins.  When the pass ends, no reference to a name     *)
(* that is registered as local in a scope around it (the root scope        *)
(* included) has received an edit or raised the ReadonlyViolation, also    *)
(* when the root scope holds the name as a prop.                           *)
(***************************************************************************)
C2_ShadowAlwaysWins ==
    Ended =>
    \A p \in Identifiers :
        \A k \in 0..(Len(p) - 1) :
            LET S == SubSeq(p, 1, k) IN
            (HasFrame(ast, S) /\ NameAt(p) \in NamesOf(ast, RegisteredIn(ast, S)))
                => /\ EditsAt(p) = {}
                   /\ ~(err.kind = "ReadonlyViolation" /\ err.node = p)

\* a reference to count, in a block in the function f(count), was passed
\* while the root scope holds count as a prop
C2_Witness ==
    /\ pc = "leave"
    /\ GenuineRead(path)
    /\ NameAt(path) = "count"
    /\ Len(scopeStack) >= 3
    /\ scopeStack[1]["count"]
    /\ \E a \in Enclosing(path, HasFrame) :
          /\ isFunctionType(NodeAt(ast, a))
          /\ "count" \in NamesOf(ast, RegisteredIn(ast, a))
    /\ EditsAt(path) = {}

(***************************************************************************)
(* C3: a function shadows inside itself only.  When a read reference to a  *)
(* name that a function F binds is visited after F and lies outside F, the *)
(* scope pushed for F is no longer on the scope stack, and the reference   *)
(* is rewritten when the name is a prop that nothing around it shadows.    *)
(***************************************************************************)
\* the functions that bind the name of the reference at p, lie before p
\* and do not contain it
LeftFunctionsBinding(p) ==
    { F \in PathsUnder(ast, <<>>) :
        /\ isFunctionType(NodeAt(ast, F))
        /\ NameAt(p) \in NamesOf(ast, DeclaredBy(ast, F))
        /\ ~IsPrefix(F, p)
        /\ Rank(ast, F) < Rank(ast, p) }

C3_FunctionScopeRetired ==
    /\ (pc = "enter" /\ GenuineRead(path)) =>
          \A F \in LeftFunctionsBinding(path) :
              \A i \in 1..Len(frameOwner) : frameOwner[i] # F
    /\ pc = "done" =>
          \A p \in Identifiers :
              ( /\ GenuineRead(p)
                /\ LeftFunctionsBinding(p) # {}
                /\ NameAt(p) \in PropLocals
                /\ ~LexShadowed(p) )
              => Rewritten(p)

(***************************************************************************)
(* C4, as claimed: when the ReadonlyViolation is raised, no identifier of  *)
(* the statement of the assignment has an edit in the log.                 *)
(***************************************************************************)
\* the identifier at p is the target of an assignment or of ++ and --
IsAssignTarget(p) ==
    /\ p \in Identifiers
    /\ \/ NodeAt(ast, Front(p)).type = "AssignmentExpression" /\ Last(p) = 1
       \/ NodeAt(ast, Front(p)).type = "UpdateExpression"

\* the statement the node at p is part of
StatementOf(p) ==
    CHOOSE a \in { SubSeq(p, 1, k) : k \in 1..Len(p) } :
        /\ NodeAt(ast, Front(a)).type \in {"Program", "BlockStatement"}
        /\ \A b \in { SubSeq(p, 1, k) : k \in 1..Len(p) } :
              NodeAt(ast, Front(b)).type \in {"Program", "BlockStatement"}
                  => Len(b) <= Len(a)

C4_NoEditInStatement ==
    err.kind = "ReadonlyViolation" =>
        \A p \in PathsUnder(ast, StatementOf(err.node)) :
            p \in Identifiers => EditsAt(p) = {}

(***************************************************************************)
(* C4, amended: the walk never passes the target of an assignment or of an *)
(* update that resolves to a prop: the ReadonlyViolation is raised with    *)
(* that identifier, which has no edit, and no edit lies after it.          *)
(***************************************************************************)
C4_ReadonlyViolationRaised ==
    /\ (pc = "leave" /\ IsAssignTarget(path)) => ~ResolvesToProp(NameAt(path))
    /\ err.kind = "ReadonlyViolation" =>
          /\ pc = "error"
          /\ err.node = path
          /\ IsAssignTarget(path)
          /\ ResolvesToProp(NameAt(path))
          /\ \A i \in 1..Len(edits) : edits[i].end < IdStart(ast, path) + offset

\* count++ raised the error after a reference of the same statement was
\* rewritten
C4_Witness ==
    /\ err.kind = "ReadonlyViolation"
    /\ NodeAt(ast, Front(err.node)).type = "UpdateExpression"
    /\ \E p \in PathsUnder(ast, StatementOf(err.node)) : Rewritten(p)

(***************************************************************************)
(* C5: a call of watch or toRef, by the local name it is imported under,   *)
(* with a bare identifier that resolves to a prop as its first argument    *)
(* is never passed: entering the call raises ReactivityTrackingMisuse for  *)
(* the argument, at any scope depth, and the argument has no edit.         *)
(***************************************************************************)
TrackingNames ==
    { UsageAlias(vueImportAliases, "watch"), UsageAlias(vueImportAliases, "toRef") }

IsTrackingCall(p) ==
    /\ NodeAt(ast, p).type = "CallExpression"
    /\ NodeAt(ast, p).kids[1].type = "Identifier"
    /\ NodeAt(ast, p).kids[1].name \in TrackingNames
    /\ Len(NodeAt(ast, p).kids) >= 2

C5_TrackingMisuseRaised ==
    /\ ( /\ pc = "enter"
         /\ path # <<>>
         /\ Last(path) = 1
         /\ IsTrackingCall(Front(path))
         /\ NodeAt(ast, Append(Front(path), 2)).type = "Identifier" )
       => ~ResolvesToProp(NameAt(Append(Front(path), 2)))
    /\ err.kind = "ReactivityTrackingMisuse" =>
          /\ pc = "error"
          /\ IsTrackingCall(path)
          /\ err.node = unwrapTSNode(ast, Append(path, 2))
          /\ EditsAt(err.node) = {}
          /\ \A i \in 1..Len(edits) : edits[i].end < IdStart(ast, err.node) + offset

\* the call w(aliasedLabel), watch imported as w, raised the error in the
\* scope of a function, before any edit
C5_Witness ==
    /\ err.kind = "ReactivityTrackingMisuse"
    /\ NodeAt(ast, path).kids[1].name = "w"
    /\ err.node = Append(path, 2)
    /\ ResolvesToProp(NameAt(err.node))
    /\ Len(scopeStack) >= 2
    /\ isFunctionType(NodeAt(ast, frameOwner[Len(frameOwner)]))
    /\ edits = <<>>

(***************************************************************************)
(* C6: ReactivityTrackingMisuse is raised only for a first argument that   *)
(* resolves to a prop, not for one that resolves to a local binding or     *)
(* that is unresolved.                                                     *)
(***************************************************************************)
C6_MisuseOnlyForProps ==
    err.kind = "ReactivityTrackingMisuse" => ResolvesToProp(NameAt(err.node))

(***************************************************************************)
(* C7, as claimed: a shorthand property whose name resolves to a prop gets *)
(* exactly one insertion of ": <access>" at its end and no overwrite when  *)
(* it is part of an object expression, and no edit at all when it is part  *)
(* of a pattern, that of a declaration or that of a destructuring          *)
(* assignment.                                                             *)
(***************************************************************************)
\* the identifier at p is the value of a shorthand property
ShorthandValue(p) ==
    /\ p \in Identifiers
    /\ NodeAt(ast, Front(p)).type = "ObjectProperty"
    /\ "shorthand" \in NodeAt(ast, Front(p)).flags
    /\ Last(p) = 2

\* the object expression or object pattern the property of p is part of
ObjectOf(p) == NodeAt(ast, Front(Front(p)))

\* the pattern the property of p is part of is the target of an assignment
InAssignmentPattern(p) ==
    /\ ObjectOf(p).type = "ObjectPattern"
    /\ NodeAt(ast, Front(Front(Front(p)))).type = "AssignmentExpression"

\* the log holds one edit for the identifier at p: the insertion of the
\* access to the prop of its name
OneInsertion(p) ==
    /\ Overwrites(p) = {}
    /\ Cardinality(Insertions(p)) = 1
    /\ \A i \in Insertions(p) :
          edits[i].text = <<": ">> \o genPropsAccessExp(PublicNameOf(NameAt(p)))

\* the walk has passed the value of a shorthand property that resolves to a
\* prop
PassedShorthandProp ==
    /\ pc = "leave"
    /\ ShorthandValue(path)
    /\ ResolvesToProp(NameAt(path))

C7_DeclarationPatternPassed ==
    /\ PassedShorthandProp
    /\ ObjectOf(path).type = "ObjectPattern"
    /\ ~InAssignmentPattern(path)

(***************************************************************************)
(* C8, as claimed: when the pass ends with an error, the edit log holds no *)
(* edit.                                                                   *)
(***************************************************************************)
C8_NoEditOnError ==
    pc = "error" => edits = <<>>

(***************************************************************************)
(* C8, amended: the pass ends at the first violation and records nothing   *)
(* after it.  A pass that completes raised no error; a pass that raised an *)
(* error stops there, at the node of the error, and every edit of its log  *)
(* was recorded before and lies before that node: the edits of the         *)
(* references visited before the violation stay in the log.                *)
(***************************************************************************)
ErrorKinds ==
    {"ReadonlyViolation", "ReactivityTrackingMisuse", "InternalInvariantViolation"}

FailFast ==
    /\ pc = "done" => err = NoError
    /\ pc = "error" <=> err # NoError
    /\ pc = "error" =>
          /\ err.kind \in ErrorKinds
          /\ \A i \in 1..Len(edits) : edits[i].end < IdStart(ast, err.node) + offset

C8_FailFast ==
    /\ []FailFast
    /\ [][pc # "error" /\ (pc' = "error" => Len(edits') = Len(edits))]_vars

\* an error was raised after an edit was recorded
C8_Witness ==
    /\ pc = "error"
    /\ edits # <<>>

(***************************************************************************)
(* C9: in every state each identifier has at most one edit, an overwrite   *)
(* of its span or an insertion at its end, no two edits of the log         *)
(* overlap, and a step only appends to the log.                            *)
(***************************************************************************)
\* the source positions an edit touches
Overlap(a, b) == a.start <= b.end /\ b.start <= a.end

NoOverlap(log) ==
    \A i, j \in 1..Len(log) : i # j => ~Overlap(log[i], log[j])

AtMostOneEdit ==
    \A p \in Identifiers : Cardinality(EditsAt(p)) <= 1

C9_EditsDisjointAppendOnly ==
    /\ [](pc # "start" => (AtMostOneEdit /\ NoOverlap(edits)))
    /\ [][IsPrefix(edits, edits')]_vars

\* the log holds an overwrite and an insertion
C9_Witness ==
    /\ pc = "done"
    /\ Len(edits) >= 2
    /\ \E i, j \in 1..Len(edits) :
          edits[i].op = "overwrite" /\ edits[j].op = "appendLeft"
    /\ \A p \in Identifiers : DeclarationSite(p) => EditsAt(p) = {}

(***************************************************************************)
(* C10: the text of every edit is the access keyed by the public name of   *)
(* the prop, not by the local name: an edit lies on an identifier whose    *)
(* name is the local name of a prop and its text is the access to the      *)
(* public name of that prop; and the root scope is seeded with the local   *)
(* names, not the public ones, as props, up to the names the declarations  *)
(* at the top of the program register in it afterwards.                    *)
(***************************************************************************)
\* the access text of the edit, the ": " of an insertion left out
AccessOf(e) ==
    IF e.op = "appendLeft" THEN Tail(e.text) ELSE e.text

EditKeyedByPublicName(e) ==
    \E p \in Identifiers :
        /\ e.end = IdEnd(ast, p) + offset
        /\ \E key \in DOMAIN knownProps :
              /\ knownProps[key].local = NameAt(p)
              /\ AccessOf(e) = genPropsAccessExp(key)
        /\ e.op = "appendLeft" => Head(e.text) = ": "

\* the names the declarations at the top of the program register in the
\* root scope, after it is seeded
RootLocals == NamesOf(ast, walkScope(ast, <<>>, TRUE).locals)

RootSeededWithLocals ==
    \A key \in DOMAIN knownProps :
        LET local == knownProps[key].local IN
        /\ local \in DOMAIN scopeStack[1]
        /\ local \notin RootLocals => scopeStack[1][local]
        /\ (key # local /\ key \notin RootLocals) => key \notin DOMAIN scopeStack[1]

C10_KeyedByPublicName ==
    pc # "start" =>
        /\ \A i \in 1..Len(edits) : EditKeyedByPublicName(edits[i])
        /\ RootSeededWithLocals

\* a reference to aliasedLabel was rewritten to __props.label
C10_Witness ==
    /\ pc = "leave"
    /\ GenuineRead(path)
    /\ NameAt(path) = "aliasedLabel"
    /\ \E i \in Overwrites(path) : edits[i].text = <<"__props", ".", "label">>

(***************************************************************************)
(* C11: scope-stack discipline.  Whenever a node is about to be entered,   *)
(* the scope stack holds the root scope and, in order, one frame for each  *)
(* function, catch clause and non-function block around the node, nothing  *)
(* else, with the last of them as the active scope: leaving a construct    *)
(* restores the stack of before it was entered.  When the traversal ends   *)
(* the stack holds exactly the root scope.                                 *)
(***************************************************************************)
\* the root and the proper ancestors of p a frame is pushed for, outermost
\* first
RECURSIVE AncestorFrames(_, _)
AncestorFrames(p, k) ==
    IF k >= Len(p) THEN <<>>
    ELSE (IF HasFrame(ast, SubSeq(p, 1, k)) THEN <<SubSeq(p, 1, k)>> ELSE <<>>)
         \o AncestorFrames(p, k + 1)

FramesAround(p) == << <<>> >> \o AncestorFrames(p, 1)

C11_ScopeStackDiscipline ==
    /\ pc = "enter" =>
          /\ frameOwner = FramesAround(path)
          /\ Len(scopeStack) = Len(frameOwner)
          /\ currentScope = Len(scopeStack)
    /\ pc = "done" =>
          /\ frameOwner = << <<>> >>
          /\ Len(scopeStack) = 1
          /\ currentScope = 1

(***************************************************************************)
(* C12: no binding is registered twice.  Over one pass each identifier is  *)
(* handed to registerLocalBinding at most once, so in one scope frame      *)
(* only, and walkScope is called at most once on each statement list, the  *)
(* body block of a catch clause included.                                  *)
(***************************************************************************)
C12_NoDoubleRegistration ==
    /\ \A id \in DOMAIN registrations : Len(registrations[id]) = 1
    /\ \A i, j \in 1..Len(walkedScopes) :
          i # j => walkedScopes[i] # walkedScopes[j]

(***************************************************************************)
(* C13: the parameter of a catch clause is bound as local in the scope of  *)
(* the clause, whatever its pattern form.  When the traversal is over,     *)
(* every identifier the parameter binds was registered in the frame pushed *)
(* for the clause, and when the pass ends no reference of the catch body   *)
(* to a name the parameter binds has an edit or raised the                 *)
(* ReadonlyViolation.                                                      *)
(***************************************************************************)
\* the catch clauses that have a parameter
CatchClausesWithParam ==
    { C \in PathsUnder(ast, <<>>) :
        NodeAt(ast, C).type = "CatchClause" /\ Len(NodeAt(ast, C).kids) = 2 }

\* the identifiers the parameter of the catch clause at C binds
CatchParamIds(C) == extractIdentifiers(ast, Append(C, 1))

\* the references of the body of the catch clause at C to a name its
\* parameter binds
CatchParamRefs(C) ==
    { p \in Identifiers :
        /\ IsPrefix(Append(C, 2), p)
        /\ GenuineRead(p)
        /\ NameAt(p) \in NamesOf(ast, CatchParamIds(C)) }

C13_CatchParamBound ==
    /\ pc = "done" =>
          \A C \in CatchClausesWithParam :
              \A id \in CatchParamIds(C) :
                  /\ id \in DOMAIN registrations
                  /\ \E i \in 1..Len(registrations[id]) : registrations[id][i] = C
    /\ Ended =>
          \A C \in CatchClausesWithParam :
              \A p \in CatchParamRefs(C) :
                  /\ EditsAt(p) = {}
                  /\ ~(err.kind = "ReadonlyViolation" /\ err.node = p)

(***************************************************************************)
(* C14: a loop binding shadows within the loop only.  For a for-of or      *)
(* for-in statement that declares its left-hand variable, no reference     *)
(* inside the loop to the name it declares has an edit when the pass ends, *)
(* and when the traversal is over every read reference to that name in the *)
(* enclosing statement list outside the loop, which nothing else shadows,  *)
(* is rewritten when the name is a prop.                                   *)
(***************************************************************************)
\* the loops that declare their left-hand variable
DeclaringLoops ==
    { L \in PathsUnder(ast, <<>>) :
        /\ NodeAt(ast, L).type \in {"ForOfStatement", "ForInStatement"}
        /\ NodeAt(ast, L).kids[1].type = "VariableDeclaration" }

LoopNames(L) == NamesOf(ast, DeclaredBy(ast, L))

\* the read references to a name the loop at L declares: those inside the
\* loop, and those of the enclosing statement list outside it
LoopRefsInside(L) ==
    { p \in Identifiers :
        GenuineRead(p) /\ IsPrefix(L, p) /\ NameAt(p) \in LoopNames(L) }

LoopRefsOutside(L) ==
    { p \in Identifiers :
        /\ GenuineRead(p)
        /\ IsPrefix(Front(L), p)
        /\ ~IsPrefix(L, p)
        /\ NameAt(p) \in LoopNames(L) }

C14_LoopBindingRange ==
    /\ Ended =>
          \A L \in DeclaringLoops : \A p \in LoopRefsInside(L) : EditsAt(p) = {}
    /\ pc = "done" =>
          \A L \in DeclaringLoops :
              \A p \in LoopRefsOutside(L) :
                  (NameAt(p) \in PropLocals /\ ~LexShadowed(p)) => Rewritten(p)

(***************************************************************************)
(* C15: the parent chain.  Whenever a node is entered, the parent stack    *)
(* after the push of its parent is the list of the ancestors of the node,  *)
(* the Program node first and the parent last, also for the nodes visited  *)
(* after a pruned type subtree; when the traversal ends the parent stack   *)
(* is empty.                                                               *)
(***************************************************************************)
\* the ancestors of the node at p, outermost first
Ancestors(p) == [k \in 1..Len(p) |-> SubSeq(p, 1, k - 1)]

C15_ParentChain ==
    /\ pc = "enter" => PushedParents = Ancestors(path)
    /\ pc = "done" => parentStack = <<>>

(***************************************************************************)
(* C16: InternalInvariantViolation is unreachable.  In every state the     *)
(* scope stack still holds the root scope at its bottom (no more pops than *)
(* pushes), there is a current scope, the last of the stack, and the error *)
(* of registerLocalBinding has not been raised.                            *)
(***************************************************************************)
C16_InternalErrorUnreachable ==
    /\ Len(scopeStack) >= 1
    /\ frameOwner[1] = <<>>
    /\ currentScope = Len(scopeStack)
    /\ err.kind # "InternalInvariantViolation"

\* a scope was popped and bindings were registered after it: the function
\* after the block registers its parameter
C16_Witness ==
    /\ pc = "leave"
    /\ isFunctionType(NodeAt(ast, path))
    /\ \E b \in PathsUnder(ast, <<>>) :
          /\ IsNonFunctionBlock(b)
          /\ Rank(ast, b) < Rank(ast, path)
          /\ ~IsPrefix(b, path)
    /\ \E id \in DOMAIN registrations : registrations[id] = <<path>>

(***************************************************************************)
(* C17: no partial visibility.  Whenever a node inside a function or a     *)
(* non-function block is about to be entered, the frame of that function   *)
(* or block is on the scope stack and holds every parameter and every      *)
(* direct declaration of it as local; and when the pass ends, no read      *)
(* reference to a name that a function or block around it declares further *)
(* down, in the block itself or after a nested function that holds the     *)
(* reference, has an edit or raised the ReadonlyViolation.                 *)
(***************************************************************************)
\* the functions and the non-function blocks around the node at p
FunctionsAndBlocksAround(p) ==
    { S \in { SubSeq(p, 1, k) : k \in 1..(Len(p) - 1) } :
        isFunctionType(NodeAt(ast, S)) \/ IsNonFunctionBlock(S) }

\* the frame pushed for the node S holds the names as local
FrameHoldsLocal(S, names) ==
    \E i \in 1..Len(frameOwner) :
        /\ frameOwner[i] = S
        /\ \A n \in names : n \in DOMAIN scopeStack[i] /\ ~scopeStack[i][n]

\* the declarations of the name of p, in the functions and blocks around p,
\* that come after p
LaterDeclarations(p) ==
    UNION { { d \in DeclaredBy(ast, S) :
                NameAt(d) = NameAt(p) /\ Rank(ast, d) > Rank(ast, p) } :
            S \in FunctionsAndBlocksAround(p) }

C17_NoPartialVisibility ==
    /\ pc = "enter" =>
          \A S \in FunctionsAndBlocksAround(path) :
              FrameHoldsLocal(S, NamesOf(ast, DeclaredBy(ast, S)))
    /\ Ended =>
          \A p \in Identifiers :
              (GenuineRead(p) /\ LaterDeclarations(p) # {})
                  => /\ EditsAt(p) = {}
                     /\ ~(err.kind = "ReadonlyViolation" /\ err.node = p)

\* a reference to count, in a function of a block that declares count after
\* the function, was passed without an edit
C17_Witness ==
    /\ pc = "leave"
    /\ GenuineRead(path)
    /\ NameAt(path) = "count"
    /\ \E d \in LaterDeclarations(path) :
          /\ IsNonFunctionBlock(SubSeq(d, 1, 1))
          /\ \E S \in FunctionsAndBlocksAround(path) :
                isFunctionType(NodeAt(ast, S)) /\ ~IsPrefix(S, d)
    /\ EditsAt(path) = {}

(***************************************************************************)
(* C18: type positions are pruned.  Entering a node whose parent is a pure *)
(* type node pushes no scope, registers no binding, records no edit and    *)
(* raises no error, and the walk does not go inside the node; so in every  *)
(* state no node in a type position owns a frame, is registered, has an    *)
(* edit or is the node of an error.  The value operand of a hybrid node    *)
(* (as-expression, non-null assertion, type assertion) is visited all the  *)
(* same: when it is an identifier that resolves to a prop, it has been     *)
(* overwritten with the access when the walk leaves it.                    *)
(***************************************************************************)
HybridTypes == {"TSAsExpression", "TSNonNullExpression", "TSTypeAssertion"}

\* the node entered is the child of a pure type node
EntersTypePosition ==
    /\ pc = "enter"
    /\ path # <<>>
    /\ NodeAt(ast, Front(path)).type \in TSTypes \ HybridTypes

PrunedStep ==
    EntersTypePosition =>
        /\ UNCHANGED <<scopeStack, frameOwner, currentScope, excludedIds,
                       registrations, walkedScopes, edits, err>>
        /\ pc' # "error"
        /\ ~IsPrefix(path, path')

NothingInTypePosition ==
    /\ \A i \in 1..Len(frameOwner) : ~InTypePosition(frameOwner[i])
    /\ \A id \in DOMAIN registrations : ~InTypePosition(id)
    /\ \A p \in Identifiers : InTypePosition(p) => EditsAt(p) = {}
    /\ err # NoError => ~InTypePosition(err.node)

\* the identifier at p is the value operand of a hybrid node
HybridOperand(p) ==
    /\ p \in Identifiers
    /\ NodeAt(ast, Front(p)).type \in HybridTypes
    /\ Last(p) = 1

HybridOperandRewritten ==
    (pc = "leave" /\ HybridOperand(path) /\ ResolvesToProp(NameAt(path)))
        => \E i \in Overwrites(path) :
              edits[i].text = genPropsAccessExp(PublicNameOf(NameAt(path)))

Declared == normalizeRaw(raw)

\* the keys of defaults the merge is about
MergedKeys == { key \in DOMAIN defaults : ~startsWithSkip(key) }

\* defaults carries a truthy __skip_ marker for the key
SkipRequested(key) ==
    /\ skipKeyOf(key) \in DOMAIN defaults
    /\ defaults[skipKeyOf(key)] # ""

WithSkipFactory(f, key) ==
    IF SkipRequested(key) THEN ("skipFactory" :> "true") @@ f ELSE f

TypeAndDefault(key) == ("type" :> Declared[key].type) @@ ("default" :> defaults[key])

DefaultSet(key) == ("default" :> defaults[key]) @@ Declared[key].fields

\* what the merge leaves alone: no entry appears or disappears, and a
\* declaration that is not merged is the one that was passed in
OthersUnchanged ==
    /\ DOMAIN props = DOMAIN Declared
    /\ \A key \in DOMAIN props \ MergedKeys : props[key] = Declared[key]

\* C19 as stated: at the return of mergeDefaults, for every key of defaults
\* that does not start with __skip, a null declaration has become an entry
\* whose default is defaults[key], an absent one has no entry, an array or a
\* function has become exactly {type, default}, any other declaration
\* differs from the one passed in by its default field only, and the
\* declarations of all other keys are unchanged.
C19_OnlyDefaultSet ==
    mpc = "returned" =>
        /\ OthersUnchanged
        /\ \A key \in MergedKeys \cap DOMAIN Declared :
            /\ props[key].kind = "object"
            /\ CASE Declared[key].kind = "null" ->
                        /\ "default" \in DOMAIN props[key].fields
                        /\ props[key].fields["default"] = defaults[key]
                 [] Declared[key].kind \in {"array", "function"} ->
                        props[key].fields = TypeAndDefault(key)
                 [] OTHER ->
                        props[key].fields = DefaultSet(key)

\* C19, amended: as above, and in each of the three cases where the key has a
\* declaration the entry also gets skipFactory = true when defaults holds a
\* truthy `__skip_<key>`; a null declaration becomes exactly {default} plus
\* that flag.
C19_MergedDefaults ==
    mpc = "returned" =>
        /\ OthersUnchanged
        /\ \A key \in MergedKeys \cap DOMAIN Declared :
            /\ props[key].kind = "object"
            /\ CASE Declared[key].kind = "null" ->
                        props[key].fields =
                            WithSkipFactory("default" :> defaults[key], key)
                 [] Declared[key].kind \in {"array", "function"} ->
                        props[key].fields = WithSkipFactory(TypeAndDefault(key), key)
                 [] OTHER ->
                        props[key].fields = WithSkipFactory(DefaultSet(key), key)

\* a call has returned that had a null declaration and an absent one among
\* the merged keys, and a skip marker for a declared key
C19_Witness ==
    /\ mpc = "returned"
    /\ \E key \in MergedKeys \cap DOMAIN Declared : Declared[key].kind = "null"
    /\ MergedKeys \ DOMAIN Declared # {}
    /\ \E key \in MergedKeys \cap DOMAIN Declared : SkipRequested(key)

(***************************************************************************)
(* withAsyncContext: the vocabulary of its property.                       *)
(***************************************************************************)
CallsOf(op) == { i \in 1..Len(calls) : calls[i].op = op }

\* the helper's own calls of setCurrentInstance
HelperSets == { i \in CallsOf("setCurrentInstance") : calls[i].by \in {"restore", "handler"} }

\* C20: getAwaitable is invoked with the captured instance ctx current; the
\* current instance is unset before the helper returns and is still unset at
\* the return; before the caller's code after the await runs, ctx has been
\* set again - by the restore function when the awaited value is fulfilled,
\* and by the rejection handler, ahead of its rethrow, when it is rejected;
\* the helper never sets an instance other than ctx.
C20_InstanceHandOff ==
    /\ \A i \in CallsOf("getAwaitable") : calls[i].arg = ctx
    /\ \A i \in CallsOf("return") :
        /\ calls[i].arg = NoInstance
        /\ \E j \in CallsOf("unsetCurrentInstance") : j < i
    /\ apc = "returned" => currentInstance = NoInstance
    /\ \A i \in CallsOf("afterAwait") :
        IF awaitable.settles = "fulfilled"
        THEN /\ \E j \in HelperSets :
                /\ j < i
                /\ calls[j].by = "restore"
             /\ calls[i].arg = ctx
        ELSE \E j \in HelperSets, k \in CallsOf("rethrow") :
                /\ calls[j].by = "handler"
                /\ j < k
                /\ k < i
    /\ \A i \in HelperSets : calls[i].arg = ctx

\* a rejected await has run to the caller's code, for a captured instance:
\* the handler has set it and rethrown
C20_Witness ==
    /\ apc = "done"
    /\ ctx \in Instances
    /\ awaitable.settles = "rejected"
    /\ CallsOf("afterAwait") # {}
    /\ \E i \in CallsOf("rethrow") : calls[i].arg = ctx

====
